---- MODULE Spec2Model ----
(***************************************************************************)
(* Model of the Kubernetes worker of virtual-host-gatherer                 *)
(* (lib/gatherer/modules/Kubernetes.py): set_node, run, _setup_connection, *)
(* _cleanup, _safe_rm and the node normalisation inside run.               *)
(*                                                                         *)
(* Python values are modelled as follows.  None is the sentinel string     *)
(* None; an attribute that was never assigned is Unset.  Text that the     *)
(* code inspects character by character (memory capacity, architecture)    *)
(* is a sequence of one-character strings.  A path is a record             *)
(* [kind, n]; the temp-file allocator hands out TmpPath(1), TmpPath(2)...  *)
(***************************************************************************)
EXTENDS Integers, Sequences, FiniteSets, TLC

VARIABLES
    fields,        \* per worker: the attributes set by __init__ / set_node
    conf,          \* kubernetes.client.configuration (process-wide singleton)
    files,         \* paths that exist on disk
    nextTmp,       \* temp-file allocator: number of names handed out so far
    pc,            \* per worker: position of the host's call into the worker
    output,        \* per worker: run()'s local `output`
    api_response,  \* per worker: run()'s local `api_response`
    exc,           \* per worker: exception in flight / raised out of the call
    created,       \* per worker: temp files created by the current run's setup
    rmFailed,      \* per worker: paths whose os.remove failed in the current run
    netCalls,      \* number of list_node calls sent to the backend
    runs,          \* number of run() calls started
    lastOp         \* the worker-boundary step taken last

vars == <<fields, conf, files, nextTmp, pc, output, api_response, exc,
          created, rmFailed, netCalls, runs, lastOp>>

-----------------------------------------------------------------------------
(* Bounds *)

\* run() calls started in one behaviour
MaxRuns == 2
\* length of the memory capacity strings enumerated for the parsing claims
MaxMemLen == 4
\* nodes in one list_node answer enumerated for the inventory claims
MaxItems == 3
\* length of the architecture strings enumerated for the architecture claim
MaxArchLen == 5

-----------------------------------------------------------------------------
(* Python values *)

None == "<None>"
Unset == "<unset>"
NoExc == "none"

Workers == {"w1", "w2"}

\* Python truthiness of an optional string
Truthy(v) == v # None /\ v # ""

\* dict.get(key): the value, or None when the key is missing
Get(d, k) == IF k \in DOMAIN d THEN d[k] ELSE None

NonePath == [kind |-> "none", n |-> 0]
EmptyPath == [kind |-> "empty", n |-> 0]
TmpPath(i) == [kind |-> "tmp", n |-> i]
ExtPath(i) == [kind |-> "ext", n |-> i]

-----------------------------------------------------------------------------
(* Inputs: the parameter mappings the host hands to set_node *)

TheUrl == "https://k8s"
TheKubeconfig == "/kube.cfg"
TheContext == "ctx"
\* base64 text: "QQ==" decodes to one byte, "QQ" has incorrect padding
GoodB64 == "QQ=="
BadB64 == "QQ"

ParamKeys == {"url", "username", "password", "client-cert", "client-key",
              "ca-cert", "kubeconfig", "context"}

\* A mapping holding exactly the keys whose value in r is not None
MkNode(r) == [k \in {k \in DOMAIN r : r[k] # None} |-> r[k]]

Param(u, usr, pw, cert, key, ca, kc, ctx) ==
    MkNode([k \in ParamKeys |->
              CASE k = "url" -> u
                [] k = "username" -> usr
                [] k = "password" -> pw
                [] k = "client-cert" -> cert
                [] k = "client-key" -> key
                [] k = "ca-cert" -> ca
                [] k = "kubeconfig" -> kc
                [] k = "context" -> ctx])

\* every presence pattern of url, kubeconfig, context (missing, empty, set)
TargetInputs ==
    { Param(u, None, None, None, None, None, kc, ctx) :
        u \in {None, "", TheUrl}, kc \in {None, "", TheKubeconfig},
        ctx \in {None, "", TheContext} }

\* <<ca-cert, client-cert, client-key>>
CredCombos ==
    ({"", GoodB64} \X {"", GoodB64} \X {"", GoodB64})
      \cup { <<BadB64, GoodB64, GoodB64>>, <<GoodB64, BadB64, GoodB64>>,
             <<GoodB64, GoodB64, BadB64>> }

\* explicit endpoint with basic auth and every credential combination
CredInputs ==
    { Param(TheUrl, "admin", "secret", c[2], c[3], c[1], None, None) :
        c \in CredCombos }

\* the external config file, alone and together with url and credentials
KubeInputs ==
    { Param(None, None, None, None, None, None, TheKubeconfig, TheContext),
      Param(TheUrl, None, None, GoodB64, GoodB64, GoodB64,
            TheKubeconfig, TheContext) }

\* mappings that name no usable target
BadInputs ==
    { Param(None, None, None, None, None, None, None, None),
      Param("", "admin", "secret", GoodB64, GoodB64, GoodB64,
            TheKubeconfig, "") }

NodeInputs == CredInputs \cup KubeInputs \cup BadInputs

-----------------------------------------------------------------------------
(* __init__ and set_node *)

\* __init__: kubeconfig and context are not assigned by the constructor
InitFields ==
    [url |-> None, user |-> None, password |-> None,
     client_cert |-> None, client_key |-> None, ca_cert |-> None,
     kubeconfig |-> Unset, context |-> Unset]

\* (variant: the kubeconfig + context alternative is forgotten)
ValidateRaisesUrlOnly(node) == ~Truthy(Get(node, "url"))

\* _validate_parameters raises AttributeError
ValidateRaises(node) ==
    ~Truthy(Get(node, "url"))
      /\ ~(Truthy(Get(node, "kubeconfig")) /\ Truthy(Get(node, "context")))

\* the assignments of set_node
NodeFields(node) ==
    [url |-> Get(node, "url"), user |-> Get(node, "username"),
     password |-> Get(node, "password"),
     client_cert |-> Get(node, "client-cert"),
     client_key |-> Get(node, "client-key"),
     ca_cert |-> Get(node, "ca-cert"),
     kubeconfig |-> Get(node, "kubeconfig"),
     context |-> Get(node, "context")]

\* (variant: the attributes are assigned before the parameters are validated)
SetNodeFieldsUnvalidated(old, node) == NodeFields(node)

\* the worker's attributes after set_node(node) on attributes old
SetNodeFields(old, node) ==
    IF ValidateRaises(node) THEN old ELSE NodeFields(node)

SetNodeRaised(node) ==
    IF ValidateRaises(node) THEN "AttributeError" ELSE NoExc

SetNode(w, node) ==
    /\ pc[w] = "idle"
    /\ fields' = [fields EXCEPT ![w] = SetNodeFields(fields[w], node)]
    /\ lastOp' = [op |-> "set_node", w |-> w, raised |-> SetNodeRaised(node),
                  node |-> node]
    /\ UNCHANGED <<conf, files, nextTmp, pc, output, api_response, exc,
                   created, rmFailed, netCalls, runs>>

-----------------------------------------------------------------------------
(* Node normalisation (the loop body of run) *)

Digits == {"0", "1", "2", "3", "4", "5", "6", "7", "8", "9"}
UpperLetters == <<"A", "B", "C", "D", "E", "F", "G", "H", "I", "J", "K", "L", "M",
                  "N", "O", "P", "Q", "R", "S", "T", "U", "V", "W", "X", "Y", "Z">>
LowerLetters == <<"a", "b", "c", "d", "e", "f", "g", "h", "i", "j", "k", "l", "m",
                  "n", "o", "p", "q", "r", "s", "t", "u", "v", "w", "x", "y", "z">>
Range(f) == {f[i] : i \in DOMAIN f}
\* the characters \w matches
WordChars == Digits \cup Range(UpperLetters) \cup Range(LowerLetters) \cup {"_"}

DigitVal(c) ==
    CASE c = "0" -> 0 [] c = "1" -> 1 [] c = "2" -> 2 [] c = "3" -> 3
      [] c = "4" -> 4 [] c = "5" -> 5 [] c = "6" -> 6 [] c = "7" -> 7
      [] c = "8" -> 8 [] c = "9" -> 9

\* int(s) for a non-empty string of digits
RECURSIVE ToInt(_)
ToInt(s) ==
    IF s = <<>> THEN 0
    ELSE 10 * ToInt(SubSeq(s, 1, Len(s) - 1)) + DigitVal(s[Len(s)])

\* length of the longest prefix of s made of digits
RECURSIVE DigitPrefixLen(_)
DigitPrefixLen(s) ==
    IF s = <<>> \/ s[1] \notin Digits THEN 0
    ELSE 1 + DigitPrefixLen(Tail(s))

\* characters group 1 of ^(\d+)(\w+)$ takes: \d+ is greedy and gives one
\* character back when the whole string is digits, so that \w+ is not empty
MagnitudeLen(s) ==
    IF DigitPrefixLen(s) = Len(s) THEN Len(s) - 1 ELSE DigitPrefixLen(s)

\* reg.match(s) is not None
RegMatches(s) ==
    /\ MagnitudeLen(s) >= 1
    /\ \A i \in (MagnitudeLen(s) + 1)..Len(s) : s[i] \in WordChars

\* reg.match(s).groups()
RegGroups(s) ==
    [memory |-> SubSeq(s, 1, MagnitudeLen(s)),
     unit |-> SubSeq(s, MagnitudeLen(s) + 1, Len(s))]

\* (variant: Ki rounds to the nearest MiB instead of truncating)
ConvertUnitRounding(magnitude, unit) ==
    IF unit = <<"K", "i">> THEN (magnitude + 512) \div 1024
    ELSE IF unit = <<"G", "i">> THEN magnitude * 1024
    ELSE magnitude

\* (variant: a unit other than Ki and Gi resets the memory to 0)
ConvertUnitKnownOnly(magnitude, unit) ==
    IF unit = <<"K", "i">> THEN magnitude \div 1024
    ELSE IF unit = <<"G", "i">> THEN magnitude * 1024
    ELSE 0

\* the two unit conversions, applied one after the other; true division
\* followed by int() truncates, which for magnitudes >= 0 is \div
ConvertUnit(magnitude, unit) ==
    LET afterKi == IF unit = <<"K", "i">> THEN magnitude \div 1024 ELSE magnitude
    IN  IF unit = <<"G", "i">> THEN afterKi * 1024 ELSE afterKi

\* 'ramMb' for the capacity string s
RamMb(s) ==
    IF RegMatches(s)
    THEN ConvertUnit(ToInt(RegGroups(s).memory), RegGroups(s).unit)
    ELSE 0

LowerChar(c) ==
    IF \E i \in DOMAIN UpperLetters : UpperLetters[i] = c
    THEN LowerLetters[CHOOSE i \in DOMAIN UpperLetters : UpperLetters[i] = c]
    ELSE c

\* str.lower()
Lower(s) == [i \in DOMAIN s |-> LowerChar(s[i])]

\* (variant: the comparison is made without lower())
CpuArchExactCase(arch) ==
    IF arch = <<"a", "m", "d", "6", "4">>
    THEN <<"x", "8", "6", "_", "6", "4">>
    ELSE arch

\* 'cpuArch' for the architecture string arch
CpuArch(arch) ==
    IF Lower(arch) = <<"a", "m", "d", "6", "4">>
    THEN <<"x", "8", "6", "_", "6", "4">>
    ELSE arch

\* the exception the loop body raises on node, or NoExc: reg.match(None) is a
\* TypeError, None.lower() an AttributeError
NodeRaises(node) ==
    IF "memory" \notin DOMAIN node.capacity THEN "TypeError"
    ELSE IF "architecture" \notin DOMAIN node.node_info THEN "AttributeError"
    ELSE NoExc

\* (variant: the socket count is taken to be the constant "1")
NodeRecordOneSocket(node) ==
    [type |-> "kubernetes",
     cpuArch |-> CpuArch(node.node_info["architecture"]),
     cpuDescription |-> "(unknown)",
     cpuMhz |-> Get(node.capacity, "cpu"),
     cpuVendor |-> "(unknown)",
     hostIdentifier |-> node.node_info["machine_id"],
     name |-> node.name,
     os |-> node.node_info["os_image"],
     osVersion |-> 1,
     ramMb |-> RamMb(node.capacity["memory"]),
     totalCpuCores |-> Get(node.capacity, "cpu"),
     totalCpuSockets |-> "1",
     totalCpuThreads |-> 1,
     vms |-> <<>>]

\* the record stored under output[node.metadata.name]
NodeRecord(node) ==
    [type |-> "kubernetes",
     cpuArch |-> CpuArch(node.node_info["architecture"]),
     cpuDescription |-> "(unknown)",
     cpuMhz |-> Get(node.capacity, "cpu"),
     cpuVendor |-> "(unknown)",
     hostIdentifier |-> node.node_info["machine_id"],
     name |-> node.name,
     os |-> node.node_info["os_image"],
     osVersion |-> 1,
     ramMb |-> RamMb(node.capacity["memory"]),
     totalCpuCores |-> Get(node.capacity, "cpu"),
     totalCpuSockets |-> Get(node.capacity, "cpu"),
     totalCpuThreads |-> 1,
     vms |-> <<>>]

\* dict assignment d[k] = v
Put(d, k, v) == [x \in DOMAIN d \cup {k} |-> IF x = k THEN v ELSE d[x]]

\* the for loop of run over items, from the state st = [output, exc]
RECURSIVE Normalize(_, _)
Normalize(st, items) ==
    IF items = <<>> \/ st.exc # NoExc THEN st
    ELSE IF NodeRaises(Head(items)) # NoExc
         THEN [st EXCEPT !.exc = NodeRaises(Head(items))]
         ELSE Normalize([st EXCEPT !.output = Put(st.output, Head(items).name,
                                                  NodeRecord(Head(items)))],
                        Tail(items))

-----------------------------------------------------------------------------
(* _setup_connection *)

\* kubernetes.client.configuration after configuration.__init__()
FreshConf ==
    [host |-> "https://localhost", user |-> "", passwd |-> "",
     ssl_ca_cert |-> NonePath, cert_file |-> NonePath, key_file |-> NonePath]

\* files named by the external config file
KubeCaPath == ExtPath(1)
KubeCertPath == ExtPath(2)
KubeKeyPath == ExtPath(3)

\* What load_kube_config does (library code): it raises, or it registers the
\* artifacts the external config file names and leaves the other entries alone
KubeLoads == {"raise", "none", "all"}

LoadKubeConfig(c, load) ==
    CASE load = "all" -> [c EXCEPT !.ssl_ca_cert = KubeCaPath,
                                   !.cert_file = KubeCertPath,
                                   !.key_file = KubeKeyPath]
      [] OTHER -> c

\* base64.b64decode(s) raises (incorrect padding)
B64DecodeRaises(s) == Len(s) % 4 # 0

\* (variant: the block tests `is not None`, so an empty credential is written)
MaterializeUnlessNone(st, cred, attr, writeFails) ==
    IF st.exc # NoExc \/ cred = None THEN st
    ELSE LET p == TmpPath(st.nextTmp + 1)
             made == [st EXCEPT !.files = @ \cup {p}, !.nextTmp = @ + 1,
                                !.created = @ \cup {p}]
         IN  IF B64DecodeRaises(cred) THEN [made EXCEPT !.exc = "binascii.Error"]
             ELSE IF writeFails THEN [made EXCEPT !.exc = "IOError"]
             ELSE [made EXCEPT !.conf = [@ EXCEPT ![attr] = p]]

\* One `if self.<cred>: with NamedTemporaryFile(...)` block of
\* _setup_connection, from st = [conf, files, nextTmp, created, exc]: the file
\* is created first, then the credential is decoded and written, and only then
\* is its name stored under attr.  writeFails: the write raises IOError.
Materialize(st, cred, attr, writeFails) ==
    IF st.exc # NoExc \/ ~Truthy(cred) THEN st
    ELSE LET p == TmpPath(st.nextTmp + 1)
             made == [st EXCEPT !.files = @ \cup {p}, !.nextTmp = @ + 1,
                                !.created = @ \cup {p}]
         IN  IF B64DecodeRaises(cred) THEN [made EXCEPT !.exc = "binascii.Error"]
             ELSE IF writeFails THEN [made EXCEPT !.exc = "IOError"]
             ELSE [made EXCEPT !.conf = [@ EXCEPT ![attr] = p]]

\* the else branch of _setup_connection; failAt is the credential block
\* (1 ca-cert, 2 client-cert, 3 client-key) whose write fails, 0 for none
SetupExplicit(f, st, failAt) ==
    LET c0 == [FreshConf EXCEPT !.host = f.url, !.user = f.user,
                                !.passwd = f.password]
        s0 == [st EXCEPT !.conf = c0]
        s1 == Materialize(s0, f.ca_cert, "ssl_ca_cert", failAt = 1)
        s2 == Materialize(s1, f.client_cert, "cert_file", failAt = 2)
    IN  Materialize(s2, f.client_key, "key_file", failAt = 3)

\* _setup_connection on attributes f, from st = [conf, files, nextTmp,
\* created, exc]; load and failAt are the environment's part
SetupConnection(f, st, load, failAt) ==
    IF f.kubeconfig = Unset THEN [st EXCEPT !.exc = "AttributeError"]
    ELSE IF Truthy(f.kubeconfig) /\ Truthy(f.context)
         THEN IF load = "raise" THEN [st EXCEPT !.exc = "ConfigException"]
              ELSE [st EXCEPT !.conf = LoadKubeConfig(st.conf, load)]
         ELSE SetupExplicit(f, st, failAt)

-----------------------------------------------------------------------------
(* _safe_rm and _cleanup *)

\* what os.remove does to a path that os.path.exists saw: it removes it, finds
\* it already gone (ENOENT), or fails for another reason (EACCES)
RmOutcomes == {"ok", "ENOENT", "EACCES"}

\* _safe_rm(path) on the file system fs: [files, exc, failed].  The handler of
\* a removal failure other than ENOENT calls log.error, and the module defines
\* no name `log`: that is a NameError raised out of _safe_rm.
SafeRm(fs, path, outcome) ==
    LET p == IF path = NonePath THEN EmptyPath ELSE path
    IN  IF p \notin fs THEN [files |-> fs, exc |-> NoExc, failed |-> {}]
        ELSE IF outcome = "EACCES"
             THEN [files |-> fs, exc |-> "NameError", failed |-> {p}]
             ELSE [files |-> fs \ {p}, exc |-> NoExc, failed |-> {}]

\* the paths _cleanup walks, in order
CleanupPaths(c) == <<c.ssl_ca_cert, c.cert_file, c.key_file>>

\* _cleanup from st = [files, exc, failed] over paths; oc[i] is the outcome of
\* os.remove on the i-th path; failed collects the paths it refused.  An exception out of _safe_rm ends the loop.
RECURSIVE CleanupFrom(_, _, _, _)
CleanupFrom(st, paths, oc, i) ==
    IF i > Len(paths) \/ st.exc # NoExc THEN st
    ELSE LET r == SafeRm(st.files, paths[i], oc[i])
         IN  CleanupFrom([r EXCEPT !.failed = st.failed \cup @], paths, oc, i + 1)

Cleanup(c, fs, oc) ==
    CleanupFrom([files |-> fs, exc |-> NoExc, failed |-> {}],
                CleanupPaths(c), oc, 1)

-----------------------------------------------------------------------------
(* The backend: what CoreV1Api().list_node() answers *)

MkItem(name, cap, info) == [name |-> name, capacity |-> cap, node_info |-> info]

Info(arch, id) == [architecture |-> arch, machine_id |-> id, os_image |-> "SLES"]

N1 == MkItem("n1", [cpu |-> "4", memory |-> <<"4", "G", "i">>],
             Info(<<"a", "m", "d", "6", "4">>, "id1"))
N2 == MkItem("n2", [cpu |-> "8", memory |-> <<"2", "0", "4", "8", "K", "i">>],
             Info(<<"a", "r", "m", "6", "4">>, "id2"))
\* a second node reported under the name of N1
N1Again == MkItem("n1", [memory |-> <<"5", "0", "0", "M", "i">>],
                  Info(<<"A", "M", "D", "6", "4">>, "id3"))
\* a node whose capacity has no memory entry
NoMemory == MkItem("n3", [cpu |-> "2"], Info(<<"a", "m", "d", "6", "4">>, "id4"))

OkResponse(items) == [kind |-> "ok", status |-> 200, items |-> items]
ApiException(status) == [kind |-> "ApiException", status |-> status, items |-> <<>>]
HTTPError == [kind |-> "HTTPError", status |-> 0, items |-> <<>>]
NoResponse == [kind |-> "unset", status |-> 0, items |-> <<>>]

Responses ==
    { OkResponse(<<>>), OkResponse(<<N1>>), OkResponse(<<N1, N2>>),
      OkResponse(<<N1, N1Again>>), OkResponse(<<N1, NoMemory>>),
      ApiException(404), ApiException(500), HTTPError }

-----------------------------------------------------------------------------
(* run, in the three steps between which another worker's call can fall:   *)
(* connection setup, node listing with normalisation, teardown             *)

EmptyOutput == [null |-> FALSE, map |-> <<>>]
NullOutput == [null |-> TRUE, map |-> <<>>]

Op(name, w, raised) == [op |-> name, w |-> w, raised |-> raised, node |-> <<>>]

\* run up to and including self._setup_connection(), which is outside the
\* try: an exception out of it leaves run at once
RunSetup(w, load, failAt) ==
    /\ pc[w] = "idle"
    /\ runs < MaxRuns
    /\ LET r == SetupConnection(fields[w],
                    [conf |-> conf, files |-> files, nextTmp |-> nextTmp,
                     created |-> {}, exc |-> NoExc], load, failAt)
       IN  /\ conf' = r.conf
           /\ files' = r.files
           /\ nextTmp' = r.nextTmp
           /\ created' = [created EXCEPT ![w] = r.created]
           /\ exc' = [exc EXCEPT ![w] = r.exc]
           /\ pc' = [pc EXCEPT ![w] = IF r.exc # NoExc THEN "raised" ELSE "query"]
           /\ lastOp' = Op("run", w, r.exc)
    /\ output' = [output EXCEPT ![w] = EmptyOutput]
    /\ rmFailed' = [rmFailed EXCEPT ![w] = {}]
    /\ runs' = runs + 1
    /\ UNCHANGED <<fields, api_response, netCalls>>

\* the try block and its except clause, with resp the answer of list_node
ListNodes(out, resp) ==
    IF resp.kind = "ok"
    THEN LET n == Normalize([output |-> out.map, exc |-> NoExc], resp.items)
         IN  [output |-> [null |-> FALSE, map |-> n.output], exc |-> n.exc]
    ELSE [output |-> NullOutput, exc |-> NoExc]

RunQuery(w, resp) ==
    /\ pc[w] = "query"
    /\ api_response' = [api_response EXCEPT ![w] = resp]
    /\ output' = [output EXCEPT ![w] = ListNodes(output[w], resp).output]
    /\ exc' = [exc EXCEPT ![w] = ListNodes(output[w], resp).exc]
    /\ pc' = [pc EXCEPT ![w] = "cleanup"]
    /\ netCalls' = netCalls + 1
    /\ lastOp' = Op("run", w, NoExc)
    /\ UNCHANGED <<fields, conf, files, nextTmp, created, rmFailed, runs>>

\* the exception run leaves with after the finally clause: one raised by
\* _cleanup replaces the one in flight
AfterFinally(inFlight, fromCleanup) ==
    IF fromCleanup # NoExc THEN fromCleanup ELSE inFlight

\* the finally clause and the return
RunCleanup(w, oc) ==
    /\ pc[w] = "cleanup"
    /\ LET r == Cleanup(conf, files, oc)
           e == AfterFinally(exc[w], r.exc)
       IN  /\ files' = r.files
           /\ rmFailed' = [rmFailed EXCEPT ![w] = r.failed]
           /\ exc' = [exc EXCEPT ![w] = e]
           /\ pc' = [pc EXCEPT ![w] = IF e # NoExc THEN "raised" ELSE "returned"]
           /\ lastOp' = Op("run", w, e)
    /\ UNCHANGED <<fields, conf, nextTmp, output, api_response, created,
                   netCalls, runs>>

\* the host drops the worker and constructs a new one (__init__)
Construct(w) ==
    /\ pc[w] \in {"idle", "returned", "raised"}
    /\ pc[w] = "idle" => fields[w] # InitFields
    /\ fields' = [fields EXCEPT ![w] = InitFields]
    /\ pc' = [pc EXCEPT ![w] = "idle"]
    /\ output' = [output EXCEPT ![w] = EmptyOutput]
    /\ api_response' = [api_response EXCEPT ![w] = NoResponse]
    /\ exc' = [exc EXCEPT ![w] = NoExc]
    /\ created' = [created EXCEPT ![w] = {}]
    /\ rmFailed' = [rmFailed EXCEPT ![w] = {}]
    /\ lastOp' = Op("construct", w, NoExc)
    /\ UNCHANGED <<conf, files, nextTmp, netCalls, runs>>

-----------------------------------------------------------------------------
(* Specifications *)

Init ==
    /\ fields = [w \in Workers |-> InitFields]
    /\ conf = FreshConf
    /\ files = {KubeCaPath, KubeCertPath, KubeKeyPath}
    /\ nextTmp = 0
    /\ pc = [w \in Workers |-> "idle"]
    /\ output = [w \in Workers |-> EmptyOutput]
    /\ api_response = [w \in Workers |-> NoResponse]
    /\ exc = [w \in Workers |-> NoExc]
    /\ created = [w \in Workers |-> {}]
    /\ rmFailed = [w \in Workers |-> {}]
    /\ netCalls = 0
    /\ runs = 0
    /\ lastOp = Op("construct", "w1", NoExc)

\* the host has a worker in hand: configured, running, or not yet collected
InHand(w) == pc[w] # "idle" \/ fields[w] # InitFields

\* the host drives one worker at a time
Serial(w) == \A v \in Workers \ {w} : ~InHand(v)

\* what the environment decides during connection setup: the outcome of
\* load_kube_config, or the credential block whose write fails
SetupEnvs ==
    { [load |-> l, failAt |-> 0] : l \in KubeLoads }
      \cup { [load |-> "none", failAt |-> i] : i \in 1..3 }

DoSetNode(w) == \E node \in NodeInputs : SetNode(w, node)
DoRunSetup(w) == \E env \in SetupEnvs : RunSetup(w, env.load, env.failAt)
DoRunQuery(w) == \E resp \in Responses : RunQuery(w, resp)
DoRunCleanup(w) == \E oc \in [1..3 -> RmOutcomes] : RunCleanup(w, oc)

Next ==
    \/ \E w \in Workers : Serial(w) /\ DoSetNode(w)
    \/ \E w \in Workers : Serial(w) /\ DoRunSetup(w)
    \/ \E w \in Workers : Serial(w) /\ DoRunQuery(w)
    \/ \E w \in Workers : Serial(w) /\ DoRunCleanup(w)
    \/ \E w \in Workers : Serial(w) /\ Construct(w)

Spec == Init /\ [][Next]_vars

\* the host runs distinct workers concurrently: the steps of their calls
\* interleave.  Inputs are narrowed to a CA certificate alone, all three
\* credentials, and the external config file; setup meets no failure.
ConcInputs ==
    { Param(TheUrl, "admin", "secret", "", "", GoodB64, None, None),
      Param(TheUrl, "admin", "secret", GoodB64, GoodB64, GoodB64, None, None),
      Param(None, None, None, None, None, None, TheKubeconfig, TheContext) }

ConcResponses == { OkResponse(<<N1>>), ApiException(404) }

NextConc ==
    \/ \E w \in Workers : \E node \in ConcInputs : SetNode(w, node)
    \/ \E w \in Workers : \E load \in {"none", "all"} : RunSetup(w, load, 0)
    \/ \E w \in Workers : \E resp \in ConcResponses : RunQuery(w, resp)
    \/ \E w \in Workers : DoRunCleanup(w)
    \/ \E w \in Workers : Construct(w)

SpecConc == Init /\ [][NextConc]_vars

\* set_node alone, over every presence pattern of the target parameters
NextCfg ==
    \/ \E w \in Workers : Serial(w) /\ \E node \in TargetInputs : SetNode(w, node)
    \/ \E w \in Workers : Serial(w) /\ Construct(w)

SpecCfg == Init /\ [][NextCfg]_vars

\* Node normalisation alone: a run that has set up its connection (explicit
\* endpoint, no credentials) lists one node, whose memory capacity ranges over
\* every string of at most MaxMemLen characters and over longer magnitudes
MemAlphabet == {"0", "1", "5", "K", "G", "M", "i", "."}

StringsUpTo(n) == UNION { [1..k -> MemAlphabet] : k \in 0..n }

LongMagnitudes ==
    { <<a, b, c, d>> : a \in {"1", "2", "4"}, b \in {"0", "1"},
                       c \in {"0", "2", "9"}, d \in {"0", "3", "4"} }

\* Python integers do not overflow; the magnitudes stay where TLC's
\* 32-bit arithmetic is exact
MemStrings ==
    StringsUpTo(MaxMemLen)
      \cup { m \o u : m \in LongMagnitudes \cup { <<"5", "0", "0">> },
                      u \in { <<"K", "i">>, <<"G", "i">>, <<"M", "i">> } }
      \cup { <<"4", "1", "9", "4", "3", "0", "4", "K", "i">> }

MemNode(m) ==
    MkItem("n1", [cpu |-> "4", memory |-> m], Info(<<"a", "m", "d", "6", "4">>, "id1"))

EndpointOnly == Param(TheUrl, "admin", "secret", "", "", "", None, None)

InitMem ==
    /\ fields = [w \in Workers |->
                   IF w = "w1" THEN NodeFields(EndpointOnly) ELSE InitFields]
    /\ conf = [FreshConf EXCEPT !.host = TheUrl, !.user = "admin",
                                !.passwd = "secret"]
    /\ files = {KubeCaPath, KubeCertPath, KubeKeyPath}
    /\ nextTmp = 0
    /\ pc = [w \in Workers |-> IF w = "w1" THEN "query" ELSE "idle"]
    /\ output = [w \in Workers |-> EmptyOutput]
    /\ api_response = [w \in Workers |-> NoResponse]
    /\ exc = [w \in Workers |-> NoExc]
    /\ created = [w \in Workers |-> {}]
    /\ rmFailed = [w \in Workers |-> {}]
    /\ netCalls = 0
    /\ runs = 1
    /\ lastOp = Op("run", "w1", NoExc)

NextMem ==
    \/ \E w \in Workers :
          pc[w] = "query" /\ \E m \in MemStrings : RunQuery(w, OkResponse(<<MemNode(m)>>))
    \/ \E w \in Workers : RunCleanup(w, [i \in 1..3 |-> "ok"])

SpecMem == InitMem /\ [][NextMem]_vars

\* The inventory alone: the same run lists up to MaxItems nodes drawn from the
\* sample nodes (distinct names, a repeated name, a missing cpu or memory entry)
NodePool == {N1, N2, N1Again, NoMemory}

ItemLists == UNION { [1..k -> NodePool] : k \in 0..MaxItems }

NextItems ==
    \/ \E w \in Workers :
          pc[w] = "query" /\ \E items \in ItemLists : RunQuery(w, OkResponse(items))
    \/ \E w \in Workers : RunCleanup(w, [i \in 1..3 |-> "ok"])

SpecItems == InitMem /\ [][NextItems]_vars

\* The architecture alone: the same run lists one node, whose architecture
\* ranges over every string of at most MaxArchLen characters and over every
\* letter case of some names
ArchAlphabet == {"a", "A", "m", "M", "d", "6", "4"}

ArchNames ==
    { <<"a", "m", "d", "6", "4">>, <<"a", "r", "m", "6", "4">>,
      <<"a", "m", "d", "6", "4", "0">>, <<"x", "8", "6", "_", "6", "4">> }

\* the character c in either letter case
EitherCase(c) ==
    {c} \cup { UpperLetters[i] : i \in { j \in DOMAIN LowerLetters : LowerLetters[j] = c } }

RECURSIVE CaseVariants(_)
CaseVariants(name) ==
    IF name = <<>> THEN { <<>> }
    ELSE { <<c>> \o t : c \in EitherCase(Head(name)), t \in CaseVariants(Tail(name)) }

ArchStrings ==
    UNION { [1..k -> ArchAlphabet] : k \in 0..MaxArchLen }
      \cup UNION { CaseVariants(name) : name \in ArchNames }

ArchNode(a) ==
    MkItem("n1", [cpu |-> "4", memory |-> <<"4", "G", "i">>], Info(a, "id1"))

NextArch ==
    \/ \E w \in Workers :
          pc[w] = "query" /\ \E a \in ArchStrings : RunQuery(w, OkResponse(<<ArchNode(a)>>))
    \/ \E w \in Workers : RunCleanup(w, [i \in 1..3 |-> "ok"])

SpecArch == InitMem /\ [][NextArch]_vars

-----------------------------------------------------------------------------
(* Claims *)

\* run() has left, by return or by exception
Exited(w) == pc[w] \in {"returned", "raised"}

\* _setup_connection returned normally: the node listing was reached
SetupCompleted(w) == api_response[w].kind # "unset"

\* set_node succeeded on this instance
Configured(w) == fields[w].kubeconfig # Unset

\* C1: when a run whose connection setup completed has exited, by any exit
\* path, no temporary file that run created is left on disk.  Stated in the
\* code's favour: a file whose os.remove the system refused is not counted.
C1_SecretsRemoved ==
    \A w \in Workers :
        Exited(w) /\ SetupCompleted(w)
            => (created[w] \ rmFailed[w]) \cap files = {}

\* C2: when connection setup fails partway and run() exits, every temporary
\* file that setup had already created is gone.
C2_PartialSetupCleaned ==
    \A w \in Workers :
        pc[w] = "raised" /\ ~SetupCompleted(w) => created[w] \cap files = {}

\* C3: teardown never raises: the step that runs _cleanup leaves run() with the
\* exception (or none) it had in flight before, and returns exactly when there
\* was none.
C3_CleanupNeverRaises ==
    [][\A w \in Workers :
          pc[w] = "cleanup" /\ pc'[w] # "cleanup"
              => /\ exc'[w] = exc[w]
                 /\ pc'[w] = IF exc[w] = NoExc THEN "returned" ELSE "raised"]_vars

\* C4: run() on a successfully configured worker never leaves by exception.
C4_RunNeverRaises ==
    \A w \in Workers : Configured(w) => pc[w] # "raised"

\* C5: when list_node failed with an API error (404 or another status) or a
\* transport-level HTTP error, run() returns, and returns null.
C5_BackendErrorGivesNull ==
    \A w \in Workers :
        Exited(w) /\ api_response[w].kind \in {"ApiException", "HTTPError"}
            => pc[w] = "returned" /\ output[w] = NullOutput

\* the mapping handed to set_node holds a non-empty value under key k
HasValue(node, k) == k \in DOMAIN node /\ node[k] # ""

\* C6: set_node succeeds exactly when the mapping has a non-empty url or has
\* both kubeconfig and context non-empty; otherwise it raises the
\* configuration error (AttributeError); on success the fields are stored.
C6_ValidationExact ==
    lastOp.op = "set_node" =>
        /\ lastOp.raised = NoExc
             <=> \/ HasValue(lastOp.node, "url")
                 \/ HasValue(lastOp.node, "kubeconfig")
                      /\ HasValue(lastOp.node, "context")
        /\ lastOp.raised \in {NoExc, "AttributeError"}
        /\ lastOp.raised = NoExc => fields[lastOp.w] = NodeFields(lastOp.node)

\* set_node has just failed on an empty url with kubeconfig but no context
C6_Witness ==
    /\ lastOp.op = "set_node"
    /\ lastOp.raised = "AttributeError"
    /\ "url" \in DOMAIN lastOp.node /\ lastOp.node["url"] = ""
    /\ HasValue(lastOp.node, "kubeconfig")
    /\ "context" \notin DOMAIN lastOp.node

\* C7: a set_node call that fails changes nothing: not the worker's stored
\* fields, not the transport configuration, not the files on disk, and it
\* sends nothing to the backend.
C7_FailedSetNodeNoEffect ==
    [][lastOp'.op = "set_node" /\ lastOp'.raised # NoExc
          => UNCHANGED <<fields, conf, files, nextTmp, netCalls, pc, output,
                         api_response, exc, created, rmFailed, runs>>]_vars

\* set_node has just failed on a worker that holds an earlier configuration,
\* after a run that left the transport configured and files behind
C7_Witness ==
    /\ lastOp.op = "set_node"
    /\ lastOp.raised # NoExc
    /\ Configured(lastOp.w)
    /\ conf # FreshConf
    /\ \E i \in 1..nextTmp : TmpPath(i) \in files

\* C8: concurrently running workers do not interfere: while a run is between
\* setup and teardown its temporary files exist (nobody else deletes them), and
\* once it has returned none of them is left.  Stated for behaviours in which
\* no os.remove was refused.
C8_WorkersIsolated ==
    (\A w \in Workers : rmFailed[w] = {})
        => \A w \in Workers :
              /\ pc[w] \in {"query", "cleanup"} => created[w] \subseteq files
              /\ pc[w] = "returned" => created[w] \cap files = {}

\* The claim's reading of a capacity string: the places where it splits into
\* digits followed by a word suffix, the longest run of digits being taken
Splits(s) ==
    { k \in 1..(Len(s) - 1) :
        /\ \A i \in 1..k : s[i] \in Digits
        /\ \A i \in (k + 1)..Len(s) : s[i] \in WordChars }

Largest(S) == CHOOSE x \in S : \A y \in S : y <= x
Magnitude(s) == ToInt(SubSeq(s, 1, Largest(Splits(s))))
UnitSuffix(s) == SubSeq(s, Largest(Splits(s)) + 1, Len(s))

ClaimedRamMb(s) ==
    IF Splits(s) = {} THEN 0
    ELSE CASE UnitSuffix(s) = <<"K", "i">> -> Magnitude(s) \div 1024
           [] UnitSuffix(s) = <<"G", "i">> -> Magnitude(s) * 1024
           [] OTHER -> Magnitude(s)

\* the run listed exactly one node and normalised it
ListedOne(w) ==
    /\ pc[w] \in {"cleanup", "returned"}
    /\ api_response[w].kind = "ok"
    /\ Len(api_response[w].items) = 1
    /\ exc[w] = NoExc

ListedMemory(w) == api_response[w].items[1].capacity["memory"]
ListedRamMb(w) == output[w].map[api_response[w].items[1].name].ramMb

\* C9: ramMb is 0 when the capacity string is not digits followed by a word
\* suffix, magnitude / 1024 truncated for Ki, magnitude * 1024 for Gi, and the
\* magnitude itself for any other suffix.
C9_RamMb ==
    \A w \in Workers :
        ListedOne(w) => ListedRamMb(w) = ClaimedRamMb(ListedMemory(w))

\* "2023Ki" has been normalised to 1 (1.97... truncated)
C9_Witness ==
    \E w \in Workers :
        /\ ListedOne(w)
        /\ pc[w] = "returned"
        /\ ListedMemory(w) = <<"2", "0", "2", "3", "K", "i">>
        /\ ListedRamMb(w) = 1

UnrecognizedUnit(s) ==
    Splits(s) # {} /\ UnitSuffix(s) \notin { <<"K", "i">>, <<"G", "i">> }

\* C10 as claimed: a capacity string with a unit other than Ki and Gi yields
\* ramMb = 0, like a string that does not match.
C10_UnknownUnitIsZero ==
    \A w \in Workers :
        ListedOne(w) /\ UnrecognizedUnit(ListedMemory(w)) => ListedRamMb(w) = 0

\* C10 amended: a capacity string with a unit other than Ki and Gi yields its
\* magnitude unconverted, which is 0 only when the magnitude is 0.
C10_UnknownUnitIsMagnitude ==
    \A w \in Workers :
        ListedOne(w) /\ UnrecognizedUnit(ListedMemory(w))
            => /\ ListedRamMb(w) = Magnitude(ListedMemory(w))
               /\ ListedRamMb(w) = 0 <=> Magnitude(ListedMemory(w)) = 0

\* "500Mi" has been normalised to 500
C10_Witness ==
    \E w \in Workers :
        /\ ListedOne(w)
        /\ pc[w] = "returned"
        /\ ListedMemory(w) = <<"5", "0", "0", "M", "i">>
        /\ ListedRamMb(w) = 500

\* the names of the nodes the backend returned to w
ListedNames(w) == { api_response[w].items[i].name : i \in DOMAIN api_response[w].items }

\* no two returned nodes share a name
NamesDistinct(w) ==
    \A i, j \in DOMAIN api_response[w].items :
        api_response[w].items[i].name = api_response[w].items[j].name => i = j

\* run() returned a mapping, not null
ReturnedMapping(w) ==
    pc[w] = "returned" /\ api_response[w].kind = "ok" /\ ~output[w].null

\* the backend's raw cpu capacity of the returned node called k
RawCpu(w, k) ==
    LET node == api_response[w].items[
                    CHOOSE i \in DOMAIN api_response[w].items :
                        api_response[w].items[i].name = k]
    IN  IF "cpu" \in DOMAIN node.capacity THEN node.capacity["cpu"] ELSE None

\* C11: when run() returns a mapping for nodes with pairwise distinct names,
\* its keys are exactly the node names, and each entry carries its key as name,
\* no vms, totalCpuThreads 1, and the node's raw cpu capacity as cpuMhz,
\* totalCpuCores and totalCpuSockets.
C11_OneEntryPerNode ==
    \A w \in Workers :
        ReturnedMapping(w) /\ NamesDistinct(w)
            => /\ DOMAIN output[w].map = ListedNames(w)
               /\ \A k \in DOMAIN output[w].map :
                     /\ output[w].map[k].name = k
                     /\ output[w].map[k].vms = <<>>
                     /\ output[w].map[k].totalCpuThreads = 1
                     /\ output[w].map[k].cpuMhz = RawCpu(w, k)
                     /\ output[w].map[k].totalCpuCores = RawCpu(w, k)
                     /\ output[w].map[k].totalCpuSockets = RawCpu(w, k)

\* run() has returned the inventory of two distinctly named nodes
C11_Witness ==
    \E w \in Workers :
        /\ ReturnedMapping(w)
        /\ NamesDistinct(w)
        /\ Len(api_response[w].items) = 2
        /\ DOMAIN output[w].map = {"n1", "n2"}

ListedArch(w) == api_response[w].items[1].node_info["architecture"]
ListedCpuArch(w) == output[w].map[api_response[w].items[1].name].cpuArch

\* the string is "amd64" written in some letter case
IsAmd64AnyCase(s) ==
    /\ Len(s) = 5
    /\ s[1] \in {"a", "A"}
    /\ s[2] \in {"m", "M"}
    /\ s[3] \in {"d", "D"}
    /\ s[4] = "6"
    /\ s[5] = "4"

\* C12: cpuArch is "x86_64" when the backend's architecture string is "amd64"
\* in any letter case, and the backend's string unchanged otherwise.
C12_CpuArch ==
    \A w \in Workers :
        ListedOne(w)
            => ListedCpuArch(w) =
                   IF IsAmd64AnyCase(ListedArch(w))
                   THEN <<"x", "8", "6", "_", "6", "4">>
                   ELSE ListedArch(w)

\* "Amd64" has been normalised to "x86_64"
C12_Witness ==
    \E w \in Workers :
        /\ ListedOne(w)
        /\ pc[w] = "returned"
        /\ ListedArch(w) = <<"A", "m", "d", "6", "4">>
        /\ ListedCpuArch(w) = <<"x", "8", "6", "_", "6", "4">>

\* the transport entries for the credentials and the fields they come from
CredAttrs == {"ssl_ca_cert", "cert_file", "key_file"}

CredField(w, attr) ==
    CASE attr = "ssl_ca_cert" -> fields[w].ca_cert
      [] attr = "cert_file" -> fields[w].client_cert
      [] attr = "key_file" -> fields[w].client_key

NonEmpty(v) == v \notin {None, ""}

\* every non-empty credential of w has its own temporary file, which exists and
\* is registered with the transport, and setup created no other file
CredentialsMaterialized(w) ==
    /\ \A attr \in CredAttrs :
          NonEmpty(CredField(w, attr))
              => conf[attr] \in created[w] /\ conf[attr] \in files
    /\ \A a, b \in CredAttrs :
          NonEmpty(CredField(w, a)) /\ NonEmpty(CredField(w, b)) /\ a # b
              => conf[a] # conf[b]
    /\ Cardinality(created[w])
           = Cardinality({ attr \in CredAttrs : NonEmpty(CredField(w, attr)) })

\* C13 as claimed: in every run, with or without kubeconfig and context, setup
\* materializes and registers a file for exactly the non-empty credentials.
\* Stated for the runs whose setup returned: one that raised stopped early.
C13_AlwaysMaterialized ==
    \A w \in Workers : pc[w] = "query" => CredentialsMaterialized(w)

\* the run takes the external config file path
UsesKubeconfig(w) == NonEmpty(fields[w].kubeconfig) /\ NonEmpty(fields[w].context)

\* C13 amended: when connection setup completes on the explicit endpoint path,
\* it has materialized and registered a file for exactly the non-empty
\* credentials; on the external config file path it has created no file.
C13_MaterializedOnEndpointPath ==
    \A w \in Workers :
        pc[w] = "query"
            => IF UsesKubeconfig(w) THEN created[w] = {}
               ELSE CredentialsMaterialized(w)

\* setup has completed on the explicit endpoint path with a CA certificate and
\* a client key but no client certificate
C13_Witness ==
    \E w \in Workers :
        /\ pc[w] = "query"
        /\ ~UsesKubeconfig(w)
        /\ fields[w].ca_cert = GoodB64
        /\ fields[w].client_cert = ""
        /\ fields[w].client_key = GoodB64
        /\ Cardinality(created[w]) = 2
        /\ conf.cert_file = NonePath

\* C14: teardown of a run removes only files that the same run's connection
\* setup created: the step that runs _cleanup deletes no file that existed
\* before the run, and none the transport configuration names for another
\* reason (left by an earlier run, or set by load_kube_config).
C14_RemovesOnlyOwnFiles ==
    [][\A w \in Workers :
          pc[w] = "cleanup" /\ pc'[w] # "cleanup"
              => (files \ files') \subseteq created[w]]_vars

====
